---- MODULE Spec2Model ----
(***************************************************************************)
(* Model of the Paperless ingestion workflow (paperless.ts):                *)
(*   processDocumentWithPaperless -> processAndIngestPDF -> uploadDocument  *)
(*   -> pollPaperlessTaskStatus -> extractDuplicateId                       *)
(*   -> downloadPaperlessDocument -> readPdfText.                           *)
(* Every `await` of the source is a suspension point; the code between two  *)
(* awaits runs atomically (single-threaded event loop) and is one action.   *)
(* The external world (source server, Paperless, file system, the PDF text  *)
(* extractor) answers nondeterministically.                                 *)
(***************************************************************************)
EXTENDS Integers, Sequences, FiniteSets, TLC

\* ------------------------------------------------------------------------
\* Bounds of the model (not program constants)
\* ------------------------------------------------------------------------
\* longest tail appended to a task result message
MaxTailLen == 3
\* largest number of status queries one invocation is allowed to issue
MaxPolls == 3

\* ------------------------------------------------------------------------
\* JavaScript values, tagged by their runtime type
\* ------------------------------------------------------------------------
JNull == [t |-> "null"]
JUndef == [t |-> "undefined"]
JNum(n) == [t |-> "num", v |-> n]
\* a string kept character by character (a sequence of one-character strings)
JStr(s) == [t |-> "str", v |-> s]
\* an opaque string (only ever compared with string literals)
JSym(s) == [t |-> "sym", v |-> s]
\* a JSON object that is not a list, e.g. {"detail": "..."}
JObj == [t |-> "obj"]
JArr(a) == [t |-> "arr", v |-> a]

\* ToBoolean of the values above (the `!x` and `x && ...` tests of the source)
Truthy(x) ==
    CASE x.t = "null" -> FALSE
      [] x.t = "undefined" -> FALSE
      [] x.t = "num" -> x.v # 0
      [] x.t = "str" -> x.v # <<>>
      [] x.t = "sym" -> x.v # ""
      [] OTHER -> TRUE

\* x == "" (loose equality with the empty string)
LooseEqEmpty(x) ==
    CASE x.t = "str" -> x.v = <<>>
      [] x.t = "num" -> x.v = 0
      [] x.t = "arr" -> x.v = <<>>
      [] OTHER -> FALSE

\* ------------------------------------------------------------------------
\* Program constants
\* ------------------------------------------------------------------------
\* variant: the existence check is switched on
IGNORE_EXISTING_FILE_Off == FALSE

IGNORE_EXISTING_FILE == TRUE
REPROCESS_EXISTING_DOCUMENTS == TRUE
duplicate_string ==
    <<"I","t"," ","i","s"," ","a"," ","d","u","p","l","i","c","a","t","e">>

\* ------------------------------------------------------------------------
\* String helpers (String.prototype.*), with JavaScript's 0-based indices
\* ------------------------------------------------------------------------
Digits == {"0", "1", "2", "3", "4", "5", "6", "7", "8", "9"}

DigitVal(c) ==
    CASE c = "0" -> 0 [] c = "1" -> 1 [] c = "2" -> 2 [] c = "3" -> 3
      [] c = "4" -> 4 [] c = "5" -> 5 [] c = "6" -> 6 [] c = "7" -> 7
      [] c = "8" -> 8 [] c = "9" -> 9

\* input.lastIndexOf(ch): 0-based index of the last ch, -1 when absent
lastIndexOf(s, ch) ==
    LET hits == {i \in 1..Len(s) : s[i] = ch}
    IN  IF hits = {} THEN -1
        ELSE (CHOOSE i \in hits : \A j \in hits : j <= i) - 1

\* input.slice(from): the characters from 0-based index `from` to the end
slice(s, from) == SubSeq(s, from + 1, Len(s))

\* s.includes(t)
includes(s, t) ==
    \E i \in 0..(Len(s) - Len(t)) : SubSeq(s, i + 1, i + Len(t)) = t

\* substring.match(/(\d+)/): the first maximal digit run, <<>> when no match
matchDigits(s) ==
    LET ds == {i \in 1..Len(s) : s[i] \in Digits}
    IN  IF ds = {} THEN <<>>
        ELSE LET first == CHOOSE i \in ds : \A j \in ds : i <= j
                 ends == {k \in first..Len(s) :
                             /\ \A j \in first..k : s[j] \in Digits
                             /\ (k = Len(s) \/ s[k + 1] \notin Digits)}
                 last == CHOOSE k \in ends : TRUE
             IN  SubSeq(s, first, last)

\* parseInt(run, 10) of a non-empty digit string
RECURSIVE parseInt(_)
parseInt(run) ==
    IF run = <<>> THEN 0
    ELSE 10 * parseInt(SubSeq(run, 1, Len(run) - 1)) + DigitVal(run[Len(run)])

\* variant: the digits are searched in the whole message, not after the '#'
extractDuplicateId_NoSlice(input) ==
    LET hashIndex == lastIndexOf(input, "#")
    IN  IF hashIndex = -1 THEN JNull
        ELSE LET match == matchDigits(input)
             IN  IF match # <<>> THEN JNum(parseInt(match)) ELSE JNull

\* variant: the first '#' is used instead of the last one
extractDuplicateId_FirstHash(input) ==
    LET hits == {i \in 1..Len(input) : input[i] = "#"}
    IN  IF hits = {} THEN JNull
        ELSE LET first == CHOOSE i \in hits : \A j \in hits : i <= j
                 match == matchDigits(SubSeq(input, first + 1, Len(input)))
             IN  IF match # <<>> THEN JNum(parseInt(match)) ELSE JNull

extractDuplicateId(input) ==
    LET hashIndex == lastIndexOf(input, "#")
    IN  IF hashIndex = -1 THEN JNull
        ELSE LET substring == slice(input, hashIndex + 1)
                 match == matchDigits(substring)
             IN  IF match # <<>> THEN JNum(parseInt(match)) ELSE JNull

\* ------------------------------------------------------------------------
\* The inputs and the answers of the external world
\* ------------------------------------------------------------------------
Procs == {1, 2}
SourceUrls == {"", "http://src/doc.pdf"}
HoarderIds == {"h1"}
Tokens == {"tokA"}
NoToken == "<no credential>"

SourceBytes == {"srcA", "srcB"}
\* archival payloads: zero bytes, bytes that are no PDF, a PDF without text,
\* and two PDFs with text
ArchiveBytes == {"zero", "notpdf", "blankpdf", "pdfA", "pdfB"}

\* body of a response whose decoding (json(), arrayBuffer()) throws
BadBody == [t |-> "bad"]
Bytes(b) == [t |-> "bytes", v |-> b]

Raise == [net |-> "raise", status |-> 0, body |-> BadBody]
Resp(st, b) == [net |-> "resp", status |-> st, body |-> b]
\* response.ok
Ok(ans) == ans.status >= 200 /\ ans.status <= 299

MsgAlphabet == {"#", "0", "1", "x"}
Tails == UNION {[1..n -> MsgAlphabet] : n \in 0..MaxTailLen}
Messages == {pre \o tail : pre \in {<<>>, duplicate_string}, tail \in Tails}

TaskIds == {1, 2}
TerminalStatuses == {"SUCCESS", "FAILURE", "STARTED"}
Statuses == {"PENDING", ""} \cup TerminalStatuses
TaskResponse(id, st, res) ==
    [t |-> "rec", id |-> JNum(id), status |-> JSym(st), result |-> res]
TaskResults == {JNull} \cup {JStr(m) : m \in Messages}
\* the records a task list may start with: not yet terminal, failed (with
\* every message), and terminal without failure
WaitingRecords == {TaskResponse(1, st, JNull) : st \in {"PENDING", ""}}
FailureRecords == {TaskResponse(id, "FAILURE", res) : id \in TaskIds, res \in TaskResults}
SettledRecords ==
    {TaskResponse(id, st, res) :
        id \in TaskIds, st \in TerminalStatuses \ {"FAILURE"},
        res \in {JNull, JStr(duplicate_string \o <<"#", "1">>)}}
TaskRecords == WaitingRecords \cup FailureRecords \cup SettledRecords
\* records that may follow the first one in a task list
LaterRecords == {TaskResponse(2, st, JNull) : st \in {"PENDING", "SUCCESS"}}
TwoRecordLists ==
    {<<TaskResponse(1, st, JNull), l>> : st \in Statuses, l \in LaterRecords}

SourceAnswers ==
    {Raise, Resp(404, Bytes("srcA")), Resp(200, BadBody)}
        \cup {Resp(200, Bytes(b)) : b \in SourceBytes}

TaskUuid == <<"t", "1">>
UploadBodies == {BadBody, JNull, JStr(<<>>), JArr(<<>>), JStr(TaskUuid), JObj}
UploadAnswers ==
    {Raise} \cup {Resp(st, b) : st \in {200, 400}, b \in UploadBodies}

PollBodies ==
    {BadBody, JNull, JObj, JArr(<<>>), JArr(<<JNull>>), JArr(<<JNum(5)>>)}
        \cup {JArr(<<r>>) : r \in TaskRecords}
        \cup {JArr(l) : l \in TwoRecordLists}
PollAnswers ==
    {Raise, Resp(500, BadBody), Resp(204, BadBody)}
        \cup {Resp(200, b) : b \in PollBodies}

DownloadAnswers ==
    {Raise, Resp(404, Bytes("notpdf")), Resp(200, BadBody)}
        \cup {Resp(200, Bytes(b)) : b \in ArchiveBytes}

\* readPdfText({filePath}) on a file holding `bytes`: the promise rejects
\* (raised) or resolves to the text of the document; a zero-byte file and a
\* file that is no PDF are rejected by the PDF parser
readPdfText(bytes) ==
    CASE bytes = "pdfA" -> [raised |-> FALSE, text |-> "text of A"]
      [] bytes = "pdfB" -> [raised |-> FALSE, text |-> "text of B"]
      [] bytes = "blankpdf" -> [raised |-> FALSE, text |-> ""]
      [] OTHER -> [raised |-> TRUE, text |-> ""]

\* ------------------------------------------------------------------------
\* The decisions of the workflow, as functions of what was observed
\* ------------------------------------------------------------------------
PaperlessArchiveResult(n, u, c) == [new_entry |-> n, uuid |-> u, content |-> c]

\* variant: the guard on source_url is missing
SourceUrlGiven_Always(source_url) == TRUE

\* if (source_url)
SourceUrlGiven(source_url) == source_url # ""

\* existsSync(source_url) && !IGNORE_EXISTING_FILE
ShortCircuitExisting(exists) == exists /\ ~IGNORE_EXISTING_FILE

\* processAndIngestPDF up to the scratch write: the buffer to save, or JNull
FetchedBuffer(ans) ==
    IF ans.net = "raise" THEN JNull
    ELSE IF ~Ok(ans) THEN JNull
    ELSE IF ans.body.t = "bad" THEN JNull
    ELSE ans.body

\* uploadDocument after the POST: response.json(), or JNull when fetch or
\* json() threw; response.ok is not consulted
UploadedData(ans) ==
    IF ans.net = "raise" THEN JNull
    ELSE IF ans.body.t = "bad" THEN JNull
    ELSE ans.body

\* variant: the test of the task uuid is missing
TaskUuidMissing_Never(uuid) == FALSE

\* !paperless_task_uuid || paperless_task_uuid == ""
TaskUuidMissing(uuid) == ~Truthy(uuid) \/ LooseEqEmpty(uuid)

\* task_responses.length == 0
LengthIsZero(body) == body.t = "arr" /\ Len(body.v) = 0

\* variant: the record looked at is the last one of the list
FirstElement_Last(body) ==
    IF body.t = "arr" /\ Len(body.v) >= 1 THEN body.v[Len(body.v)] ELSE JUndef

\* task_responses[0]
FirstElement(body) ==
    IF body.t = "arr" /\ Len(body.v) >= 1 THEN body.v[1] ELSE JUndef

\* property access on a decoded element; a non-record has no such property
Field(e, name) ==
    IF e.t = "rec"
    THEN CASE name = "id" -> e.id
           [] name = "status" -> e.status
           [] name = "result" -> e.result
    ELSE JUndef

\* variant: a PENDING observation ends the poller with null (one attempt only)
PollTurn_GivesUpOnPending(ans) ==
    LET none == [act |-> "null", delay |-> FALSE, rec |-> JNull]
    IN  IF ans.net = "raise" THEN none
        ELSE IF ~Ok(ans) THEN none
        ELSE IF ans.status # 200 THEN none
        ELSE IF ans.body.t = "bad" THEN none
        ELSE IF ~Truthy(ans.body) \/ LengthIsZero(ans.body) THEN none
        ELSE LET task_response == FirstElement(ans.body)
             IN  IF task_response.t \in {"null", "undefined"}
                 THEN [act |-> "throw", delay |-> FALSE, rec |-> JNull]
                 ELSE LET task_status == Field(task_response, "status")
                          pending == task_status = JSym("PENDING")
                      IN  IF task_status # JSym("") /\ task_status # JSym("PENDING")
                          THEN [act |-> "return", delay |-> pending,
                                rec |-> task_response]
                          ELSE IF pending THEN none
                          ELSE [act |-> "loop", delay |-> pending, rec |-> JNull]

\* variant: the final test compares the status with the empty string the wrong way round
PollTurn_InvertedEmptyTest(ans) ==
    LET none == [act |-> "null", delay |-> FALSE, rec |-> JNull]
    IN  IF ans.net = "raise" THEN none
        ELSE IF ~Ok(ans) THEN none
        ELSE IF ans.status # 200 THEN none
        ELSE IF ans.body.t = "bad" THEN none
        ELSE IF ~Truthy(ans.body) \/ LengthIsZero(ans.body) THEN none
        ELSE LET task_response == FirstElement(ans.body)
             IN  IF task_response.t \in {"null", "undefined"}
                 THEN [act |-> "throw", delay |-> FALSE, rec |-> JNull]
                 ELSE LET task_status == Field(task_response, "status")
                          pending == task_status = JSym("PENDING")
                      IN  IF task_status = JSym("") /\ task_status # JSym("PENDING")
                          THEN [act |-> "return", delay |-> pending,
                                rec |-> task_response]
                          ELSE [act |-> "loop", delay |-> pending, rec |-> JNull]

\* variant: the delay is performed after an empty status as well
PollTurn_DelaysOnEmpty(ans) ==
    LET none == [act |-> "null", delay |-> FALSE, rec |-> JNull]
    IN  IF ans.net = "raise" THEN none
        ELSE IF ~Ok(ans) THEN none
        ELSE IF ans.status # 200 THEN none
        ELSE IF ans.body.t = "bad" THEN none
        ELSE IF ~Truthy(ans.body) \/ LengthIsZero(ans.body) THEN none
        ELSE LET task_response == FirstElement(ans.body)
             IN  IF task_response.t \in {"null", "undefined"}
                 THEN [act |-> "throw", delay |-> FALSE, rec |-> JNull]
                 ELSE LET task_status == Field(task_response, "status")
                          pending == task_status = JSym("PENDING")
                      IN  IF task_status # JSym("") /\ task_status # JSym("PENDING")
                          THEN [act |-> "return", delay |-> pending,
                                rec |-> task_response]
                          ELSE [act |-> "loop", delay |-> TRUE, rec |-> JNull]

\* variant: the empty-list test is missing
PollTurn_NoEmptyCheck(ans) ==
    LET none == [act |-> "null", delay |-> FALSE, rec |-> JNull]
    IN  IF ans.net = "raise" THEN none
        ELSE IF ~Ok(ans) THEN none
        ELSE IF ans.status # 200 THEN none
        ELSE IF ans.body.t = "bad" THEN none
        ELSE IF ~Truthy(ans.body) THEN none
        ELSE LET task_response == FirstElement(ans.body)
             IN  IF task_response.t \in {"null", "undefined"}
                 THEN [act |-> "throw", delay |-> FALSE, rec |-> JNull]
                 ELSE LET task_status == Field(task_response, "status")
                          pending == task_status = JSym("PENDING")
                      IN  IF task_status # JSym("") /\ task_status # JSym("PENDING")
                          THEN [act |-> "return", delay |-> pending,
                                rec |-> task_response]
                          ELSE [act |-> "loop", delay |-> pending, rec |-> JNull]

\* variant: the final test forgets PENDING (any non-empty status returns)
PollTurn_ReturnsPending(ans) ==
    LET none == [act |-> "null", delay |-> FALSE, rec |-> JNull]
    IN  IF ans.net = "raise" THEN none
        ELSE IF ~Ok(ans) THEN none
        ELSE IF ans.status # 200 THEN none
        ELSE IF ans.body.t = "bad" THEN none
        ELSE IF ~Truthy(ans.body) \/ LengthIsZero(ans.body) THEN none
        ELSE LET task_response == FirstElement(ans.body)
             IN  IF task_response.t \in {"null", "undefined"}
                 THEN [act |-> "throw", delay |-> FALSE, rec |-> JNull]
                 ELSE LET task_status == Field(task_response, "status")
                          pending == task_status = JSym("PENDING")
                      IN  IF task_status # JSym("")
                          THEN [act |-> "return", delay |-> pending,
                                rec |-> task_response]
                          ELSE [act |-> "loop", delay |-> pending, rec |-> JNull]

\* variant: a non-2xx answer is retried after the delay
PollTurn_RetriesOnError(ans) ==
    LET none == [act |-> "null", delay |-> FALSE, rec |-> JNull]
    IN  IF ans.net = "raise" THEN none
        ELSE IF ~Ok(ans) THEN [act |-> "loop", delay |-> TRUE, rec |-> JNull]
        ELSE IF ans.status # 200 THEN none
        ELSE IF ans.body.t = "bad" THEN none
        ELSE IF ~Truthy(ans.body) \/ LengthIsZero(ans.body) THEN none
        ELSE LET task_response == FirstElement(ans.body)
             IN  IF task_response.t \in {"null", "undefined"}
                 THEN [act |-> "throw", delay |-> FALSE, rec |-> JNull]
                 ELSE LET task_status == Field(task_response, "status")
                          pending == task_status = JSym("PENDING")
                      IN  IF task_status # JSym("") /\ task_status # JSym("PENDING")
                          THEN [act |-> "return", delay |-> pending,
                                rec |-> task_response]
                          ELSE [act |-> "loop", delay |-> pending, rec |-> JNull]

\* one turn of the loop of pollPaperlessTaskStatus:
\*   act = "null"   : return null
\*   act = "throw"  : a TypeError leaves the function
\*   act = "return" : return rec
\*   act = "loop"   : next turn, after the 5000 ms delay iff delay
PollTurn(ans) ==
    LET none == [act |-> "null", delay |-> FALSE, rec |-> JNull]
    IN  IF ans.net = "raise" THEN none
        ELSE IF ~Ok(ans) THEN none
        ELSE IF ans.status # 200 THEN none
        ELSE IF ans.body.t = "bad" THEN none
        ELSE IF ~Truthy(ans.body) \/ LengthIsZero(ans.body) THEN none
        ELSE LET task_response == FirstElement(ans.body)
             IN  IF task_response.t \in {"null", "undefined"}
                 THEN [act |-> "throw", delay |-> FALSE, rec |-> JNull]
                 ELSE LET task_status == Field(task_response, "status")
                          pending == task_status = JSym("PENDING")
                      IN  IF task_status # JSym("") /\ task_status # JSym("PENDING")
                          THEN [act |-> "return", delay |-> pending,
                                rec |-> task_response]
                          ELSE [act |-> "loop", delay |-> pending, rec |-> JNull]

\* variant: the duplicate message is consulted whatever the status is
ResolveDocument_IgnoresStatus(task_info) ==
    LET task_status == Field(task_info, "status")
        id == Field(task_info, "id")
        result == Field(task_info, "result")
    IN  IF task_status = JSym("FAILURE") \/ Truthy(result)
        THEN IF REPROCESS_EXISTING_DOCUMENTS
             THEN IF Truthy(result) /\ includes(result.v, duplicate_string)
                  THEN LET duplicate_id == extractDuplicateId(result.v)
                       IN  IF Truthy(duplicate_id)
                           THEN [ret |-> FALSE, document_id |-> duplicate_id]
                           ELSE [ret |-> TRUE, document_id |-> id]
                  ELSE [ret |-> TRUE, document_id |-> id]
             ELSE [ret |-> TRUE, document_id |-> id]
        ELSE [ret |-> FALSE, document_id |-> id]

\* variant: a failure that is no duplicate goes on to the download
ResolveDocument_DownloadsAnyFailure(task_info) ==
    LET task_status == Field(task_info, "status")
        id == Field(task_info, "id")
        result == Field(task_info, "result")
    IN  IF task_status = JSym("FAILURE")
        THEN IF REPROCESS_EXISTING_DOCUMENTS
             THEN IF Truthy(result) /\ includes(result.v, duplicate_string)
                  THEN LET duplicate_id == extractDuplicateId(result.v)
                       IN  IF Truthy(duplicate_id)
                           THEN [ret |-> FALSE, document_id |-> duplicate_id]
                           ELSE [ret |-> TRUE, document_id |-> id]
                  ELSE [ret |-> FALSE, document_id |-> id]
             ELSE [ret |-> TRUE, document_id |-> id]
        ELSE [ret |-> FALSE, document_id |-> id]

\* variant: the extracted id is tested against null, so 0 is adopted
ResolveDocument_NullCheck(task_info) ==
    LET task_status == Field(task_info, "status")
        id == Field(task_info, "id")
        result == Field(task_info, "result")
    IN  IF task_status = JSym("FAILURE")
        THEN IF REPROCESS_EXISTING_DOCUMENTS
             THEN IF Truthy(result) /\ includes(result.v, duplicate_string)
                  THEN LET duplicate_id == extractDuplicateId(result.v)
                       IN  IF duplicate_id # JNull
                           THEN [ret |-> FALSE, document_id |-> duplicate_id]
                           ELSE [ret |-> TRUE, document_id |-> id]
                  ELSE [ret |-> TRUE, document_id |-> id]
             ELSE [ret |-> TRUE, document_id |-> id]
        ELSE [ret |-> FALSE, document_id |-> id]

\* variant: a failure that is no duplicate loses the record's id
ResolveDocument_DropsId(task_info) ==
    LET task_status == Field(task_info, "status")
        id == Field(task_info, "id")
        result == Field(task_info, "result")
    IN  IF task_status = JSym("FAILURE")
        THEN IF Truthy(result) /\ includes(result.v, duplicate_string)
             THEN LET duplicate_id == extractDuplicateId(result.v)
                  IN  IF Truthy(duplicate_id)
                      THEN [ret |-> FALSE, document_id |-> duplicate_id]
                      ELSE [ret |-> TRUE, document_id |-> id]
             ELSE [ret |-> TRUE, document_id |-> JNull]
        ELSE [ret |-> FALSE, document_id |-> id]

\* the branch on the terminal record: ret = TRUE when the workflow returns
\* the failure result with document_id, FALSE when it goes on to download
\* document_id
ResolveDocument(task_info) ==
    LET task_status == Field(task_info, "status")
        id == Field(task_info, "id")
        result == Field(task_info, "result")
    IN  IF task_status = JSym("FAILURE")
        THEN IF REPROCESS_EXISTING_DOCUMENTS
             THEN IF Truthy(result) /\ includes(result.v, duplicate_string)
                  THEN LET duplicate_id == extractDuplicateId(result.v)
                       IN  IF Truthy(duplicate_id)
                           THEN [ret |-> FALSE, document_id |-> duplicate_id]
                           ELSE [ret |-> TRUE, document_id |-> id]
                  ELSE [ret |-> TRUE, document_id |-> id]
             ELSE [ret |-> TRUE, document_id |-> id]
        ELSE [ret |-> FALSE, document_id |-> id]

\* the local duplicate_id: the value of extractDuplicateId(task_info.result)
\* where the duplicate branch is taken, undefined elsewhere
DuplicateIdLocal(task_info) ==
    LET task_status == Field(task_info, "status")
        result == Field(task_info, "result")
    IN  IF /\ task_status = JSym("FAILURE")
           /\ REPROCESS_EXISTING_DOCUMENTS
           /\ Truthy(result)
           /\ includes(result.v, duplicate_string)
        THEN extractDuplicateId(result.v)
        ELSE JUndef

\* downloadPaperlessDocument after the GET:
\*   "null"  : return null,   "throw" : arrayBuffer() threw,
\*   "write" : the buffer is written to the scratch file
DownloadedBuffer(ans) ==
    IF ans.net = "raise" THEN [act |-> "null", buf |-> JNull]
    ELSE IF ~Ok(ans) THEN [act |-> "null", buf |-> JNull]
    ELSE IF ans.body.t = "bad" THEN [act |-> "throw", buf |-> JNull]
    ELSE [act |-> "write", buf |-> ans.body]

\* variant: empty text is not tested
ExtractionResult_NoEmptyCheck(document_id, ex) ==
    IF ex.raised THEN PaperlessArchiveResult(FALSE, document_id, "")
    ELSE PaperlessArchiveResult(TRUE, document_id, ex.text)

\* variant: a throwing extractor resets the document id
ExtractionResult_RaiseResetsId(document_id, ex) ==
    IF ex.raised THEN PaperlessArchiveResult(FALSE, JNull, "")
    ELSE IF ex.text = "" THEN PaperlessArchiveResult(FALSE, document_id, "")
    ELSE PaperlessArchiveResult(TRUE, document_id, ex.text)

\* the end of the workflow, from the outcome of readPdfText
ExtractionResult(document_id, ex) ==
    IF ex.raised THEN PaperlessArchiveResult(FALSE, document_id, "")
    ELSE IF ex.text = "" THEN PaperlessArchiveResult(FALSE, document_id, "")
    ELSE PaperlessArchiveResult(TRUE, document_id, ex.text)

\* ------------------------------------------------------------------------
\* State
\* ------------------------------------------------------------------------
\* inv[p]     : the invocation p of processDocumentWithPaperless: its
\*              arguments, its position (pc), its locals, its result, and
\*              what it did (steps) and was answered (the *_answer fields)
\* dirs       : the scratch directories that exist
\* originals  : the files of directory "originals", by file name
\* pdfa       : the files of directory "pdf-a", by file name
VARIABLES inv, dirs, originals, pdfa

vars == <<inv, dirs, originals, pdfa>>

NoAnswer == [net |-> "none", status |-> 0, body |-> BadBody]
NoResult == [new_entry |-> FALSE, uuid |-> JUndef, content |-> "<pending>"]

\* `${hoarder_id}.pdf` and `${documentId}.pdf`
PdfName(stem) == <<stem, ".pdf">>

\* variant: every pre-upload copy goes to one fixed file
OriginalPath_Shared(hoarder_id) == PdfName("upload")

\* variant: every archival copy goes to one fixed file
ArchivePath_Shared(documentId) == PdfName(JNum(0))

\* join("originals", fileName) with fileName = `${hoarder_id}.pdf`: the name of
\* the pre-upload copy inside directory originals
OriginalPath(hoarder_id) == PdfName(hoarder_id)

\* join("pdf-a", `${documentId}.pdf`): the name of the archival copy inside
\* directory pdf-a
ArchivePath(documentId) == PdfName(documentId)

Step(kind, token, target) == [kind |-> kind, token |-> token, target |-> target]
NetworkKinds == {"source_get", "upload_post", "status_get", "download_get"}

\* the JSON body of a POST /paperless/process and the HTTP answer to it
\* (both absent when processDocumentWithPaperless is called directly)
NoRequest == [url |-> JUndef, id |-> JUndef, token |-> JUndef]
NoResponse == [status |-> 0, body |-> JNull]

Invocation(pc, source_url, hoarder_id, token) ==
    [pc |-> pc,
     source_url |-> source_url, hoarder_id |-> hoarder_id, token |-> token,
     pdfBuffer |-> JNull,
     paperless_task_uuid |-> JNull,
     task_info |-> JNull,
     duplicate_id |-> JUndef,
     document_id |-> JNull,
     document_buffer |-> JNull,
     result |-> NoResult,
     steps |-> <<>>,
     polls |-> 0,
     source_answer |-> NoAnswer,
     orig_write |-> "none",
     orig_read |-> "none",
     upload_answer |-> NoAnswer,
     uploaded |-> JNull,
     poll_answer |-> NoAnswer,
     poll_act |-> "none",
     download_answer |-> NoAnswer,
     pdfa_mkdir |-> "none",
     pdfa_write |-> "none",
     extraction |-> "none",
     request |-> NoRequest,
     response |-> NoResponse]

Idle == Invocation("idle", "", "h1", "tokA")

\* one invocation; the scratch directories may or may not exist yet
Init ==
    /\ \E u \in SourceUrls, h \in HoarderIds, k \in Tokens :
          inv = [p \in Procs |-> IF p = 1 THEN Invocation("start", u, h, k) ELSE Idle]
    /\ dirs \in SUBSET {"originals", "pdf-a"}
    /\ originals = <<>>
    /\ pdfa = <<>>

\* ------------------------------------------------------------------------
\* Actions: one per suspension point of the workflow
\* ------------------------------------------------------------------------
Set(p, r) == inv' = [inv EXCEPT ![p] = r]

\* return `res` to the caller
Return(i, res) == [i EXCEPT !.pc = "done", !.result = res]

\* an exception leaves processDocumentWithPaperless
Throw(i) == [i EXCEPT !.pc = "raised"]

\* { new_entry: false, uuid: null, content: "" }
FailNull == PaperlessArchiveResult(FALSE, JNull, "")

\* variant: the failure result forgets the document id
Fail_ResetsId(document_id) == PaperlessArchiveResult(FALSE, JNull, "")
\* { new_entry: false, uuid: document_id, content: "" }
Fail(document_id) == PaperlessArchiveResult(FALSE, document_id, "")

Did(i, kind, token, target) == Append(i.steps, Step(kind, token, target))

\* processDocumentWithPaperless up to the first await of processAndIngestPDF
\* (the GET of the source)
Start(p) ==
    LET i == inv[p] IN
    /\ i.pc = "start"
    /\ UNCHANGED <<originals, pdfa>>
    /\ IF ~SourceUrlGiven(i.source_url)
       THEN Set(p, Return(i, FailNull)) /\ UNCHANGED dirs
       ELSE \E exists \in BOOLEAN, made \in BOOLEAN :
              IF ShortCircuitExisting(exists)
              THEN Set(p, Return(i, FailNull)) /\ UNCHANGED dirs
              ELSE IF "originals" \notin dirs /\ ~made
                   THEN \* mkdirSync throws, outside any try
                        Set(p, Throw(i)) /\ UNCHANGED dirs
                   ELSE /\ dirs' = dirs \cup {"originals"}
                        /\ Set(p, [i EXCEPT !.pc = "await_source",
                                     !.steps = Did(i, "source_get", NoToken, i.source_url)])

\* the source answers (fetch and arrayBuffer); then writeFile is started
SourceFetchedFrom(p, Answers) ==
    LET i == inv[p] IN
    /\ i.pc = "await_source"
    /\ UNCHANGED <<dirs, originals, pdfa>>
    /\ \E ans \in Answers :
          LET buf == FetchedBuffer(ans)
              j == [i EXCEPT !.source_answer = ans]
          IN  IF buf = JNull
              THEN Set(p, Return(j, FailNull))
              ELSE Set(p, [j EXCEPT !.pc = "await_orig_write", !.pdfBuffer = buf])

SourceFetched(p) == SourceFetchedFrom(p, SourceAnswers)

\* writeFile(originals/<hoarder_id>.pdf) settles; then the file is read back
\* by createFileObject
OriginalWritten(p) ==
    LET i == inv[p] IN
    /\ i.pc = "await_orig_write"
    /\ UNCHANGED <<dirs, pdfa>>
    /\ \E ok \in BOOLEAN :
          IF ~ok
          THEN /\ Set(p, Return([i EXCEPT !.orig_write = "failed"], FailNull))
               /\ UNCHANGED originals
          ELSE /\ originals' = (OriginalPath(i.hoarder_id) :> i.pdfBuffer.v) @@ originals
               /\ Set(p, [i EXCEPT !.pc = "await_orig_read", !.orig_write = "ok",
                            !.steps = Did(i, "orig_write", NoToken, OriginalPath(i.hoarder_id))])

\* BunFile(filePath).arrayBuffer() settles; then the POST is sent
OriginalRead(p) ==
    LET i == inv[p] IN
    /\ i.pc = "await_orig_read"
    /\ UNCHANGED <<dirs, originals, pdfa>>
    /\ \E ok \in BOOLEAN :
          IF ~ok \/ OriginalPath(i.hoarder_id) \notin DOMAIN originals
          THEN Set(p, Return([i EXCEPT !.orig_read = "failed"], FailNull))
          ELSE LET content == originals[OriginalPath(i.hoarder_id)]
               IN  Set(p, [i EXCEPT !.pc = "await_upload", !.orig_read = "ok",
                             !.uploaded = Bytes(content),
                             !.steps = Did(i, "upload_post", i.token, content)])

\* variant: the poller authenticates with one process-wide credential
FirstPoll_EnvToken(i) ==
    [i EXCEPT !.pc = "await_poll", !.polls = 1,
              !.steps = Did(i, "status_get", "tokA", i.paperless_task_uuid)]

\* send the first status query of pollPaperlessTaskStatus
FirstPoll(i) ==
    [i EXCEPT !.pc = "await_poll", !.polls = 1,
              !.steps = Did(i, "status_get", i.token, i.paperless_task_uuid)]

\* the upload endpoint answers (fetch and json); then the poller starts
UploadAnsweredFrom(p, Answers) ==
    LET i == inv[p] IN
    /\ i.pc = "await_upload"
    /\ UNCHANGED <<dirs, originals, pdfa>>
    /\ \E ans \in Answers :
          LET data == UploadedData(ans)
              j == [i EXCEPT !.upload_answer = ans, !.paperless_task_uuid = data]
          IN  IF TaskUuidMissing(data)
              THEN Set(p, Return(j, FailNull))
              ELSE Set(p, FirstPoll(j))

UploadAnswered(p) == UploadAnsweredFrom(p, UploadAnswers)

\* variant: the two branches are swapped
originalQuery_Swapped(original) == IF original THEN "" ELSE "?original=true"

\* original ? "?original=true" : ""
originalQuery(original) == IF original THEN "?original=true" ELSE ""

\* the path and query of the download URL
DownloadUrl(documentId, original) ==
    <<"/api/documents/", documentId, "/download/", originalQuery(original)>>

\* variant: the download GET is issued a second time
StartDownload_Twice(p, i, document_id) ==
    \E made \in BOOLEAN :
       IF "pdf-a" \notin dirs /\ ~made
       THEN /\ Set(p, Return([i EXCEPT !.document_id = document_id,
                                       !.pdfa_mkdir = "failed"],
                             Fail(document_id)))
            /\ UNCHANGED dirs
       ELSE /\ dirs' = dirs \cup {"pdf-a"}
            /\ Set(p, [i EXCEPT !.pc = "await_download",
                         !.document_id = document_id,
                         !.pdfa_mkdir = "ok",
                         !.steps = Did(i, "download_get", i.token,
                                       DownloadUrl(document_id, FALSE))
                                   \o <<Step("download_get", i.token,
                                          DownloadUrl(document_id, FALSE))>>])

\* downloadPaperlessDocument(document_id, false, token) up to its GET, called
\* inside the try of the workflow: a throwing mkdirSync is caught there
StartDownload(p, i, document_id) ==
    \E made \in BOOLEAN :
       IF "pdf-a" \notin dirs /\ ~made
       THEN /\ Set(p, Return([i EXCEPT !.document_id = document_id,
                                       !.pdfa_mkdir = "failed"],
                             Fail(document_id)))
            /\ UNCHANGED dirs
       ELSE /\ dirs' = dirs \cup {"pdf-a"}
            /\ Set(p, [i EXCEPT !.pc = "await_download",
                         !.document_id = document_id,
                         !.pdfa_mkdir = "ok",
                         !.steps = Did(i, "download_get", i.token,
                                       DownloadUrl(document_id, FALSE))])

\* a status query is answered (fetch and json): one turn of the poller's
\* loop and, when the poller returns, the workflow up to the download GET
\* (capped: the model stops offering non-terminal answers after MaxPolls
\* queries; uncapped: the loop goes on, and the counter and the step log
\* stop growing at MaxPolls queries)
PollAnsweredLoop(p, Answers, capped) ==
    LET i == inv[p] IN
    /\ i.pc = "await_poll"
    /\ UNCHANGED <<originals, pdfa>>
    /\ \E ans \in Answers :
          LET turn == PollTurn(ans)
              j == [i EXCEPT !.poll_answer = ans, !.poll_act = turn.act]
          IN  CASE turn.act = "null" ->
                     Set(p, Return(j, FailNull)) /\ UNCHANGED dirs
                [] turn.act = "throw" ->
                     Set(p, Throw(j)) /\ UNCHANGED dirs
                [] turn.act = "loop" ->
                     /\ capped => i.polls < MaxPolls
                     /\ UNCHANGED dirs
                     /\ IF i.polls >= MaxPolls
                        THEN Set(p, [j EXCEPT !.pc = IF turn.delay THEN "sleeping"
                                                    ELSE "await_poll"])
                        ELSE IF turn.delay
                        THEN Set(p, [j EXCEPT !.pc = "sleeping",
                                       !.steps = Did(i, "delay", NoToken, 5000)])
                        ELSE Set(p, [j EXCEPT !.polls = i.polls + 1,
                                       !.steps = Did(i, "status_get", i.token,
                                                     i.paperless_task_uuid)])
                [] turn.act = "return" ->
                     LET k == [j EXCEPT !.task_info = turn.rec,
                                        !.duplicate_id = DuplicateIdLocal(turn.rec)]
                         r == ResolveDocument(turn.rec)
                     IN  IF r.ret
                         THEN /\ Set(p, Return([k EXCEPT !.document_id = r.document_id],
                                               Fail(r.document_id)))
                              /\ UNCHANGED dirs
                         ELSE StartDownload(p, k, r.document_id)

PollAnsweredFrom(p, Answers) == PollAnsweredLoop(p, Answers, TRUE)

PollAnswered(p) == PollAnsweredFrom(p, PollAnswers)

\* the 5000 ms timer fires; the loop issues the next status query
DelayElapsed(p) ==
    LET i == inv[p] IN
    /\ i.pc = "sleeping"
    /\ UNCHANGED <<dirs, originals, pdfa>>
    /\ IF i.polls >= MaxPolls
       THEN Set(p, [i EXCEPT !.pc = "await_poll"])
       ELSE Set(p, [i EXCEPT !.pc = "await_poll", !.polls = i.polls + 1,
                      !.steps = Did(i, "status_get", i.token, i.paperless_task_uuid)])

\* the download endpoint answers (fetch and arrayBuffer); then writeFile is
\* started
DownloadAnsweredFrom(p, Answers) ==
    LET i == inv[p] IN
    /\ i.pc = "await_download"
    /\ UNCHANGED <<dirs, originals, pdfa>>
    /\ \E ans \in Answers :
          LET d == DownloadedBuffer(ans)
              j == [i EXCEPT !.download_answer = ans]
          IN  IF d.act = "write"
              THEN Set(p, [j EXCEPT !.pc = "await_pdfa_write", !.document_buffer = d.buf])
              ELSE Set(p, Return(j, Fail(i.document_id)))

DownloadAnswered(p) == DownloadAnsweredFrom(p, DownloadAnswers)

\* writeFile(pdf-a/<documentId>.pdf) settles; then readPdfText is started
ArchiveWritten(p) ==
    LET i == inv[p] IN
    /\ i.pc = "await_pdfa_write"
    /\ UNCHANGED <<dirs, originals>>
    /\ \E ok \in BOOLEAN :
          IF ~ok
          THEN /\ Set(p, Return([i EXCEPT !.pdfa_write = "failed"], Fail(i.document_id)))
               /\ UNCHANGED pdfa
          ELSE /\ pdfa' = (ArchivePath(i.document_id) :> i.document_buffer.v) @@ pdfa
               /\ Set(p, [i EXCEPT !.pc = "await_extract", !.pdfa_write = "ok",
                            !.steps = Did(i, "pdfa_write", NoToken, ArchivePath(i.document_id))
                                        \o <<Step("extract", NoToken, ArchivePath(i.document_id))>>])

\* readPdfText settles: it read the file as it is now, or failed on I/O
TextExtracted(p) ==
    LET i == inv[p] IN
    /\ i.pc = "await_extract"
    /\ UNCHANGED <<dirs, originals, pdfa>>
    /\ \E io_error \in BOOLEAN :
          LET ex == IF io_error \/ ArchivePath(i.document_id) \notin DOMAIN pdfa
                    THEN [raised |-> TRUE, text |-> ""]
                    ELSE readPdfText(pdfa[ArchivePath(i.document_id)])
              how == IF ex.raised THEN "raised"
                     ELSE IF ex.text = "" THEN "empty" ELSE "text"
          IN  Set(p, Return([i EXCEPT !.extraction = how],
                            ExtractionResult(i.document_id, ex)))

Next ==
    \E p \in Procs :
       \/ Start(p)
       \/ SourceFetched(p)
       \/ OriginalWritten(p)
       \/ OriginalRead(p)
       \/ UploadAnswered(p)
       \/ PollAnswered(p)
       \/ DelayElapsed(p)
       \/ DownloadAnswered(p)
       \/ ArchiveWritten(p)
       \/ TextExtracted(p)

Spec == Init /\ [][Next]_vars

\* ------------------------------------------------------------------------
\* Vocabulary of the properties
\* ------------------------------------------------------------------------
Done(p) == inv[p].pc = "done"
Raised(p) == inv[p].pc = "raised"
Invoked(p) == inv[p].pc \notin {"idle", "start"}

StepsOfKind(i, kinds) == {n \in 1..Len(i.steps) : i.steps[n].kind \in kinds}
DownloadRequests(i) == StepsOfKind(i, {"download_get"})

IsTaskRecord(x) == x.t = "rec"
IsFailure(x) == IsTaskRecord(x) /\ x.status = JSym("FAILURE")
\* the result message carries the duplicate phrase
HasDuplicatePhrase(x) ==
    /\ IsTaskRecord(x)
    /\ x.result.t = "str"
    /\ \E n \in 1..Len(x.result.v) :
          /\ n + Len(duplicate_string) - 1 <= Len(x.result.v)
          /\ \A k \in 1..Len(duplicate_string) :
                x.result.v[n + k - 1] = duplicate_string[k]
\* no '#', or no decimal digit after the last '#'
NoIdAfterLastHash(s) ==
    LET hashes == {k \in 1..Len(s) : s[k] = "#"}
    IN  \/ hashes = {}
        \/ \A j \in 1..Len(s) : (\A h \in hashes : h < j) => s[j] \notin Digits

\* C1: an invocation of the workflow never ends by raising an exception to
\* its caller, whatever the external calls answer.
C1_NeverRaises == \A p \in Procs : ~Raised(p)

C3_EmptyUrlNoNetwork ==
    \A p \in Procs :
       (Invoked(p) /\ inv[p].source_url = "") =>
          /\ Done(p)
          /\ inv[p].result = FailNull
          /\ StepsOfKind(inv[p], NetworkKinds) = {}
          /\ inv[p].steps = <<>>

C3_Witness == \E p \in Procs : Done(p) /\ inv[p].source_url = ""

\* the upload step failed: source fetch failed, the POST raised, the upload
\* endpoint answered non-2xx, or the identifier obtained is empty
UploadFailed(i) ==
    \/ i.source_answer.net = "raise"
    \/ i.source_answer.net = "resp" /\ ~Ok(i.source_answer)
    \/ i.upload_answer.net = "raise"
    \/ i.upload_answer.net = "resp" /\ ~Ok(i.upload_answer)
    \/ i.upload_answer.net = "resp" /\ i.upload_answer.body \in {JNull, JStr(<<>>)}

\* C4: when the upload step fails the workflow returns {false, null, ""}.
C4_UploadFailureReturnsNull ==
    \A p \in Procs :
       (Done(p) /\ UploadFailed(inv[p])) => inv[p].result = FailNull

\* the terminal record is a FAILURE whose message carries the duplicate
\* phrase and an identifier after its last '#'
DuplicateOf(x) == extractDuplicateId(x.result.v)
IsResolvableDuplicate(x) ==
    IsFailure(x) /\ HasDuplicatePhrase(x) /\ ~NoIdAfterLastHash(x.result.v)

\* C5: on a FAILURE record whose duplicate message carries an identifier N
\* the workflow adopts N as document id, requests the archival download of
\* document N, and returns {true, N, text} when download and extraction
\* succeed with non-empty text.
C5_DuplicateAdopted ==
    \A p \in Procs :
       IsResolvableDuplicate(inv[p].task_info) =>
          LET i == inv[p]
              N == DuplicateOf(i.task_info)
          IN  /\ i.document_id = N
              /\ i.pdfa_mkdir = "ok" =>
                    /\ DownloadRequests(i) # {}
                    /\ \A n \in DownloadRequests(i) :
                          i.steps[n].target = DownloadUrl(N, FALSE)
              /\ (Done(p) /\ i.extraction = "text") =>
                    /\ i.result.new_entry
                    /\ i.result.uuid = N
                    /\ i.result.content = readPdfText(i.document_buffer.v).text

\* C6: a FAILURE record whose message is null or lacks the duplicate phrase
\* makes the workflow return {false, <the record's id>, ""}.
C6_FailureNotDuplicate ==
    \A p \in Procs :
       (IsFailure(inv[p].task_info) /\ ~HasDuplicatePhrase(inv[p].task_info)) =>
          /\ Done(p)
          /\ inv[p].result = PaperlessArchiveResult(FALSE, inv[p].task_info.id, "")
          /\ DownloadRequests(inv[p]) = {}

C6_Witness ==
    \E p \in Procs :
       /\ IsFailure(inv[p].task_info)
       /\ inv[p].task_info.result = JStr(<<"#", "1">>)
       /\ Done(p)

\* C7: a FAILURE record whose message has the duplicate phrase but no
\* extractable identifier makes the workflow return
\* {false, <the record's id>, ""}.
C7_DuplicateUnresolvable ==
    \A p \in Procs :
       (/\ IsFailure(inv[p].task_info)
        /\ HasDuplicatePhrase(inv[p].task_info)
        /\ NoIdAfterLastHash(inv[p].task_info.result.v)) =>
          /\ Done(p)
          /\ inv[p].result = PaperlessArchiveResult(FALSE, inv[p].task_info.id, "")
          /\ DownloadRequests(inv[p]) = {}

C7_Witness ==
    \E p \in Procs :
       /\ IsFailure(inv[p].task_info)
       /\ inv[p].task_info.result = JStr(duplicate_string \o <<"1", "#">>)
       /\ Done(p)

\* the status query raised, answered non-2xx, answered 2xx other than 200,
\* returned an undecodable body, or returned an empty list
PollerGaveUp(ans) ==
    \/ ans.net = "raise"
    \/ ans.net = "resp" /\ ans.status # 200
    \/ ans.net = "resp" /\ ans.status = 200 /\ ans.body \in {BadBody, JArr(<<>>)}

\* C8: when the poller returns no result the workflow returns
\* {false, null, ""} and issues no archival download.
C8_PollFailure ==
    \A p \in Procs :
       PollerGaveUp(inv[p].poll_answer) =>
          /\ Done(p)
          /\ inv[p].result = FailNull
          /\ DownloadRequests(inv[p]) = {}

C8_Witness ==
    \E p \in Procs :
       /\ inv[p].poll_answer = Resp(200, JArr(<<>>))
       /\ inv[p].polls > 1
       /\ Done(p)

\* the archival download failed: the request raised, the response was
\* non-2xx or unreadable, the payload was empty, or the scratch write failed
DownloadRefused(i) ==
    \/ i.download_answer.net = "raise"
    \/ i.download_answer.net = "resp" /\ ~Ok(i.download_answer)
    \/ i.download_answer = Resp(200, BadBody)
DownloadFailed(i) ==
    \/ DownloadRefused(i)
    \/ i.download_answer = Resp(200, Bytes("zero"))
    \/ i.pdfa_write = "failed"

\* the document id the workflow resolved from the terminal record
ResolvedId(x) == IF IsFailure(x) THEN DuplicateOf(x) ELSE x.id

\* C9: when the archival download fails the workflow returns
\* {false, <the resolved document id>, ""}; the id is not reset to null.
C9_DownloadFailureKeepsId ==
    \A p \in Procs :
       LET i == inv[p]
       IN  /\ (DownloadRefused(i) \/ i.pdfa_write = "failed") => Done(p)
           /\ (DownloadFailed(i) /\ Done(p)) =>
                 /\ i.result = PaperlessArchiveResult(FALSE, i.document_id, "")
                 /\ i.result.uuid # JNull
                 /\ IsTaskRecord(i.task_info) =>
                       /\ i.result.uuid = ResolvedId(i.task_info)
                       /\ i.result.uuid.t = "num"

C9_Witness ==
    \E p \in Procs :
       /\ Done(p)
       /\ inv[p].download_answer = Resp(200, Bytes("zero"))
       /\ IsFailure(inv[p].task_info)
       /\ inv[p].document_id # inv[p].task_info.id

\* C10: when text extraction raises or yields empty output the workflow
\* returns {false, <the resolved document id>, ""}; new_entry = TRUE is
\* returned only when extraction produced non-empty text.
C10_ExtractionFailureKeepsId ==
    \A p \in Procs :
       LET i == inv[p]
       IN  /\ i.extraction \in {"raised", "empty"} =>
                 /\ Done(p)
                 /\ i.result = PaperlessArchiveResult(FALSE, i.document_id, "")
                 /\ i.document_id # JNull
                 /\ IsTaskRecord(i.task_info) => i.document_id = ResolvedId(i.task_info)
           /\ (Done(p) /\ i.result.new_entry) =>
                 /\ i.extraction = "text"
                 /\ i.result.content # ""

C10_Witness ==
    \E p \in Procs :
       /\ Done(p)
       /\ inv[p].extraction = "empty"
       /\ inv[p].document_buffer = Bytes("blankpdf")

\* ------------------------------------------------------------------------
\* The HTTP boundary (server.ts): POST /paperless/process
\* ------------------------------------------------------------------------
RequestUrls == {JUndef, JSym(""), JSym("http://src/doc.pdf")}
RequestIds == {JUndef, JSym("h1")}
RequestTokens == {JUndef, JSym("tokA")}

\* c.json(body, status)
HttpResponse(status, body) == [status |-> status, body |-> body]

\* the three tests of the handler: the first field found missing, or "none"
MissingField(req) ==
    IF ~Truthy(req.url) THEN "url"
    ELSE IF ~Truthy(req.id) THEN "id"
    ELSE IF ~Truthy(req.token) THEN "token"
    ELSE "none"

\* one request is received; the scratch directories may or may not exist
InitHttp ==
    /\ \E u \in RequestUrls, h \in RequestIds, k \in RequestTokens :
          inv = [p \in Procs |->
                   IF p = 1
                   THEN [Invocation("request", "", "h1", "tokA")
                           EXCEPT !.request = [url |-> u, id |-> h, token |-> k]]
                   ELSE Idle]
    /\ dirs \in SUBSET {"originals", "pdf-a"}
    /\ originals = <<>>
    /\ pdfa = <<>>

\* the handler up to its await of processDocumentWithPaperless
HandleRequest(p) ==
    LET i == inv[p]
        missing == MissingField(i.request)
    IN  /\ i.pc = "request"
        /\ UNCHANGED <<dirs, originals, pdfa>>
        /\ IF missing # "none"
           THEN Set(p, [i EXCEPT !.pc = "responded",
                          !.response = HttpResponse(400, JSym(missing))])
           ELSE Set(p, [i EXCEPT !.pc = "start",
                          !.source_url = i.request.url.v,
                          !.hoarder_id = i.request.id.v,
                          !.token = i.request.token.v])

ViaHttp(i) == i.request # NoRequest

\* the workflow returned to the handler: return c.json(result)
Respond(p) ==
    LET i == inv[p]
    IN  /\ i.pc = "done"
        /\ ViaHttp(i)
        /\ UNCHANGED <<dirs, originals, pdfa>>
        /\ Set(p, [i EXCEPT !.pc = "responded",
                     !.response = HttpResponse(200, i.result)])

\* the workflow threw into the handler, which has no try: the framework
\* answers 500
RespondError(p) ==
    LET i == inv[p]
    IN  /\ i.pc = "raised"
        /\ ViaHttp(i)
        /\ UNCHANGED <<dirs, originals, pdfa>>
        /\ Set(p, [i EXCEPT !.pc = "failed",
                     !.response = HttpResponse(500, JNull)])

NextHttp ==
    \/ Next
    \/ \E p \in Procs :
          \/ HandleRequest(p)
          \/ Respond(p)
          \/ RespondError(p)

SpecHttp == InitHttp /\ [][NextHttp]_vars

\* the workflow was entered for this request
WorkflowEntered(i) == i.steps # <<>> \/ i.result # NoResult \/ i.pc = "start"

\* C11: a request missing url, id or token is answered 400 and the workflow
\* is not invoked; every request carrying all three fields is answered 200
\* with the workflow's result as JSON, whatever failed inside the workflow.
C11_HttpBoundary ==
    \A p \in Procs :
       LET i == inv[p]
       IN  (ViaHttp(i) /\ i.pc \notin {"request"}) =>
              IF MissingField(i.request) # "none"
              THEN /\ i.pc = "responded"
                   /\ i.response.status = 400
                   /\ ~WorkflowEntered(i)
              ELSE /\ i.pc # "failed"
                   /\ i.pc = "responded" =>
                         /\ i.response.status = 200
                         /\ i.response.body = i.result
                         /\ i.result # NoResult

\* ------------------------------------------------------------------------
\* The poller
\* ------------------------------------------------------------------------
\* the answer is a 200 whose list starts with a task record of status st
FirstStatusIs(ans, st) ==
    /\ ans.net = "resp"
    /\ ans.status = 200
    /\ ans.body.t = "arr"
    /\ Len(ans.body.v) >= 1
    /\ ans.body.v[1].t = "rec"
    /\ ans.body.v[1].status = JSym(st)

InPoller(i) == i.pc \in {"await_poll", "sleeping"}
StatusQuery(i) == Step("status_get", i.token, i.paperless_task_uuid)

\* in this step the status query of invocation p is answered
PollStep(p) == inv[p].pc = "await_poll" /\ inv'[p] # inv[p]

\* C12 (step part): a PENDING observation is followed by the fixed delay and
\* then by another status query; the poller hands a record to the workflow
\* only in a step that observed a first record whose status is neither
\* PENDING nor empty.
C12_PendingStep(p) ==
    /\ (PollStep(p) /\ FirstStatusIs(inv'[p].poll_answer, "PENDING")) =>
          /\ inv'[p].pc = "sleeping"
          /\ inv'[p].steps = Append(inv[p].steps, Step("delay", NoToken, 5000))
          /\ inv'[p].task_info = JNull
    /\ (inv[p].pc = "sleeping" /\ inv'[p] # inv[p]) =>
          /\ inv'[p].pc = "await_poll"
          /\ inv'[p].steps = Append(inv[p].steps, StatusQuery(inv[p]))
    /\ (InPoller(inv[p]) /\ inv'[p].task_info # JNull) =>
          /\ PollStep(p)
          /\ inv'[p].task_info = inv'[p].poll_answer.body.v[1]
          /\ ~FirstStatusIs(inv'[p].poll_answer, "PENDING")
          /\ ~FirstStatusIs(inv'[p].poll_answer, "")

\* C12: the poller waits and queries again after every PENDING observation
\* and never returns a record whose status is PENDING or empty.
C12_PendingPollsAgain ==
    /\ [][\A p \in Procs : C12_PendingStep(p)]_vars
    /\ [](\A p \in Procs :
            /\ InPoller(inv[p]) => inv[p].task_info = JNull
            /\ IsTaskRecord(inv[p].task_info) =>
                  inv[p].task_info.status \notin {JSym("PENDING"), JSym("")})

C12_Witness ==
    \E p \in Procs :
       /\ IsTaskRecord(inv[p].task_info)
       /\ inv[p].polls = 3
       /\ Cardinality(StepsOfKind(inv[p], {"delay"})) = 2

\* the status query raised or was answered with a non-2xx status
TransportFailed(ans) ==
    \/ ans.net = "raise"
    \/ ans.net = "resp" /\ (ans.status < 200 \/ ans.status > 299)

\* C13: on the first status query that raises or answers non-2xx the poller
\* returns null at once: the failed query is the last step of the
\* invocation (no later query, no later delay), however many PENDING
\* answers came before.
C13_TransportFailureNoRetry ==
    \A p \in Procs :
       LET i == inv[p]
       IN  TransportFailed(i.poll_answer) =>
              /\ ~InPoller(i)
              /\ i.pc # "raised"
              /\ i.task_info = JNull
              /\ i.result = FailNull
              /\ i.steps[Len(i.steps)] = StatusQuery(i)
              /\ Cardinality(StepsOfKind(i, {"status_get"})) = i.polls

C13_Witness ==
    \E p \in Procs :
       /\ inv[p].poll_answer = Resp(500, BadBody)
       /\ inv[p].polls = 2
       /\ StepsOfKind(inv[p], {"delay"}) # {}
       /\ Done(p)

\* a 200 answer whose body is an empty list or malformed: not decodable, not
\* a list, or a list whose first element is no task record
MalformedList(ans) ==
    /\ ans.net = "resp"
    /\ ans.status = 200
    /\ \/ ans.body.t # "arr"
       \/ Len(ans.body.v) = 0
       \/ ans.body.v[1].t # "rec"

\* C14: on a 200 answer with an empty or malformed list the poller returns
\* null at once, without retrying and without raising.
C14_MalformedListReturnsNull ==
    \A p \in Procs :
       LET i == inv[p]
       IN  MalformedList(i.poll_answer) =>
              /\ ~InPoller(i)
              /\ i.pc # "raised"
              /\ i.task_info = JNull
              /\ i.result = FailNull

\* ------------------------------------------------------------------------
\* The duplicate resolver
\* ------------------------------------------------------------------------
\* the value of the decimal numeral s, most significant digit first
RECURSIVE Numeral(_, _)
Numeral(s, acc) ==
    IF s = <<>> THEN acc ELSE Numeral(Tail(s), 10 * acc + DigitVal(Head(s)))

\* what extraction must give: null without '#' or without a digit after the
\* last '#', else the value of the first maximal digit run after the last '#'
ExpectedDuplicateId(s) ==
    IF NoIdAfterLastHash(s) THEN JNull
    ELSE LET after == {j \in 1..Len(s) : \A k \in j..Len(s) : s[k] # "#"}
             from == CHOOSE j \in after :
                        /\ s[j] \in Digits
                        /\ \A k \in after : k < j => s[k] \notin Digits
             to == CHOOSE j \in from..Len(s) :
                        /\ \A k \in from..j : s[k] \in Digits
                        /\ j < Len(s) => s[j + 1] \notin Digits
         IN  JNum(Numeral(SubSeq(s, from, to), 0))

\* C15: for every message over the alphabet, extractDuplicateId gives null
\* when there is no '#' or no digit after the last '#', and otherwise the
\* value of the first maximal digit run after the last '#'.
C15_ExtractDuplicateId ==
    \A p \in Procs :
       (IsFailure(inv[p].task_info) /\ HasDuplicatePhrase(inv[p].task_info)) =>
          inv[p].duplicate_id = ExpectedDuplicateId(inv[p].task_info.result.v)

\* digits before the last '#' are ignored
C15_Witness ==
    \E p \in Procs :
       /\ IsFailure(inv[p].task_info)
       /\ inv[p].task_info.result = JStr(duplicate_string \o <<"1", "#", "0">>)
       /\ inv[p].duplicate_id = JNum(0)

\* ------------------------------------------------------------------------
\* The requests of the workflow
\* ------------------------------------------------------------------------
\* C16: every download request asks for the archival copy, never for the
\* original upload ('?original=true').
C16_ArchivalCopyOnly ==
    \A p \in Procs :
       \A n \in DownloadRequests(inv[p]) :
          /\ inv[p].steps[n].target[4] # "?original=true"
          /\ inv[p].steps[n].target = DownloadUrl(inv[p].document_id, FALSE)

C16_Witness ==
    \E p \in Procs :
       /\ DownloadRequests(inv[p]) # {}
       /\ IsFailure(inv[p].task_info)
       /\ Done(p)

\* the place of a step in the order source fetch, originals write, upload,
\* status polls (and their delays), download, archival write, extraction
StepRank(kind) ==
    CASE kind = "source_get" -> 1
      [] kind = "orig_write" -> 2
      [] kind = "upload_post" -> 3
      [] kind \in {"status_get", "delay"} -> 4
      [] kind = "download_get" -> 5
      [] kind = "pdfa_write" -> 6
      [] kind = "extract" -> 7

InOrder(steps) ==
    \A n \in 1..Len(steps) :
       IF n = 1 THEN StepRank(steps[n].kind) = 1
       ELSE LET a == StepRank(steps[n - 1].kind)
                b == StepRank(steps[n].kind)
            IN  \/ b = a + 1
                \/ /\ a = 4
                   /\ b = 4
                   /\ ~(steps[n - 1].kind = "delay" /\ steps[n].kind = "delay")

C18_Ordered(i) ==
    /\ InOrder(i.steps)
    /\ StepsOfKind(i, {"status_get"}) # {} =>
          /\ i.upload_answer.net = "resp"
          /\ Truthy(i.paperless_task_uuid)
          /\ ~LooseEqEmpty(i.paperless_task_uuid)
    /\ StepsOfKind(i, {"download_get"}) # {} =>
          /\ i.task_info # JNull
          /\ i.task_info = i.poll_answer.body.v[1]
          /\ ~InPoller(i)
    /\ StepsOfKind(i, {"extract"}) # {} =>
          /\ i.pdfa_write = "ok"
          /\ ArchivePath(i.document_id) \in DOMAIN pdfa

\* C18: the external steps of one invocation occur only in the order source
\* fetch, originals write, upload POST, status polls, archival download,
\* archival write, text extraction, return: no poll before the upload gave a
\* non-empty identifier, no download before the poller returned a record, no
\* extraction before the archival file was written, no step after the return.
C18_StepOrder ==
    /\ [](\A p \in Procs : C18_Ordered(inv[p]))
    /\ [][\A p \in Procs :
            inv[p].pc \in {"done", "raised"} => inv'[p].steps = inv[p].steps]_vars

C18_Witness ==
    \E p \in Procs :
       /\ Done(p)
       /\ inv[p].extraction = "text"
       /\ StepsOfKind(inv[p], {"delay"}) # {}
       /\ Len(inv[p].steps) >= 9

\* ------------------------------------------------------------------------
\* Two invocations running concurrently (one per inbound request): they
\* share the scratch directories and nothing else
\* ------------------------------------------------------------------------
ConcHoarderIds == {"h1", "h2"}

ConcSourceAnswers == {Resp(200, Bytes(b)) : b \in SourceBytes}
ConcUploadAnswers == {Raise, Resp(200, JStr(TaskUuid))}
ConcPollAnswers ==
    {Raise,
     Resp(200, JArr(<<TaskResponse(1, "PENDING", JNull)>>)),
     Resp(200, JArr(<<TaskResponse(1, "SUCCESS", JNull)>>)),
     Resp(200, JArr(<<TaskResponse(2, "SUCCESS", JNull)>>)),
     Resp(200, JArr(<<TaskResponse(2, "FAILURE",
                                   JStr(duplicate_string \o <<"#", "1">>))>>))}
ConcDownloadAnswers == {Raise, Resp(200, Bytes("pdfA")), Resp(200, Bytes("pdfB"))}

\* invocation 1 runs for external id h1 under token tokA, invocation 2 for
\* either external id under token tokB
InitConc ==
    /\ \E h \in ConcHoarderIds :
          inv = [p \in Procs |->
                   IF p = 1
                   THEN Invocation("start", "http://src/doc.pdf", "h1", "tokA")
                   ELSE Invocation("start", "http://src/other.pdf", h, "tokB")]
    /\ dirs \in SUBSET {"originals", "pdf-a"}
    /\ originals = <<>>
    /\ pdfa = <<>>

NextConc ==
    \E p \in Procs :
       \/ Start(p)
       \/ SourceFetchedFrom(p, ConcSourceAnswers)
       \/ OriginalWritten(p)
       \/ OriginalRead(p)
       \/ UploadAnsweredFrom(p, ConcUploadAnswers)
       \/ PollAnsweredFrom(p, ConcPollAnswers)
       \/ DelayElapsed(p)
       \/ DownloadAnsweredFrom(p, ConcDownloadAnswers)
       \/ ArchiveWritten(p)
       \/ TextExtracted(p)

SpecConc == InitConc /\ [][NextConc]_vars


ServiceKinds == {"upload_post", "status_get", "download_get"}

\* C17: every request of an invocation to the document service carries the
\* token passed to that invocation, the GET of source_url carries no
\* credential, and no request carries the token of another invocation.
C17_TokenPerInvocation ==
    \A p \in Procs :
       \A n \in 1..Len(inv[p].steps) :
          LET st == inv[p].steps[n]
          IN  /\ st.kind \in ServiceKinds =>
                    /\ st.token = inv[p].token
                    /\ \A q \in Procs \ {p} :
                          inv[q].token # inv[p].token => st.token # inv[q].token
              /\ st.kind = "source_get" => st.token = NoToken

C17_Witness ==
    /\ inv[1].token # inv[2].token
    /\ \A p \in Procs :
          \A k \in ServiceKinds \cup {"source_get"} : StepsOfKind(inv[p], {k}) # {}

\* C19 as stated: the bytes an invocation uploads are always the bytes it
\* fetched itself, in every interleaving.
C19_OwnBytesUploaded ==
    \A p \in Procs :
       inv[p].uploaded # JNull => inv[p].uploaded = inv[p].pdfBuffer

\* C19 as amended: the bytes an invocation uploads are the bytes it fetched
\* itself, unless another invocation with the same external id wrote the
\* shared originals file before the re-read; then they are that invocation's
\* bytes.
C19_OwnBytesUnlessOverwritten ==
    \A p \in Procs :
       inv[p].uploaded # JNull =>
          \/ inv[p].uploaded = inv[p].pdfBuffer
          \/ \E q \in Procs \ {p} :
                /\ inv[q].hoarder_id = inv[p].hoarder_id
                /\ inv[q].orig_write = "ok"
                /\ inv[p].uploaded = inv[q].pdfBuffer

C19_Witness ==
    /\ inv[1].hoarder_id # inv[2].hoarder_id
    /\ inv[1].uploaded # JNull
    /\ inv[2].uploaded # JNull
    /\ inv[1].pdfBuffer # inv[2].pdfBuffer

\* the targets of the steps of one kind
TargetsOfKind(i, kind) == {i.steps[n].target : n \in StepsOfKind(i, {kind})}

\* C20: two concurrent invocations with different external ids and different
\* resolved document ids never write the same scratch path, in either
\* staging area, and each extracts the text of the archival bytes it
\* downloaded itself.
C20_NoCollision ==
    \A p \in Procs : \A q \in Procs \ {p} :
       (/\ inv[p].hoarder_id # inv[q].hoarder_id
        /\ inv[p].document_id # inv[q].document_id) =>
          /\ TargetsOfKind(inv[p], "orig_write") \cap TargetsOfKind(inv[q], "orig_write") = {}
          /\ TargetsOfKind(inv[p], "pdfa_write") \cap TargetsOfKind(inv[q], "pdfa_write") = {}
          /\ inv[p].extraction = "text" =>
                inv[p].result.content = readPdfText(inv[p].document_buffer.v).text

C20_Witness ==
    /\ inv[1].hoarder_id # inv[2].hoarder_id
    /\ inv[1].document_id # inv[2].document_id
    /\ \A p \in Procs : inv[p].extraction = "text" /\ inv[p].pdfa_write = "ok"
    /\ inv[1].result.content # inv[2].result.content


\* ------------------------------------------------------------------------
\* A service that never settles: every status query is answered with 200 and
\* a list whose first record is PENDING
\* ------------------------------------------------------------------------
PendingAnswers == {a \in PollAnswers : FirstStatusIs(a, "PENDING")}

NextPending ==
    \E p \in Procs :
       \/ Start(p)
       \/ SourceFetched(p)
       \/ OriginalWritten(p)
       \/ OriginalRead(p)
       \/ UploadAnswered(p)
       \/ PollAnsweredLoop(p, PendingAnswers, FALSE)
       \/ DelayElapsed(p)

\* the service answers every status query and the timer of the delay fires
FairPending ==
    /\ WF_vars(\E p \in Procs : PollAnsweredLoop(p, PendingAnswers, FALSE))
    /\ WF_vars(\E p \in Procs : DelayElapsed(p))

SpecPending == Init /\ [][NextPending]_vars /\ FairPending

\* in the log of invocation i, status queries and delays alternate
QueriesAndDelaysAlternate(i) ==
    \A n \in 1..(Len(i.steps) - 1) :
       /\ i.steps[n].kind = "status_get" => i.steps[n + 1].kind = "delay"
       /\ i.steps[n].kind = "delay" => i.steps[n + 1].kind = "status_get"

\* C21: against a service that answers every status query with 200 and a
\* first record of status PENDING, the poller never returns (no step leaves
\* the poller, no record and no result is ever produced), it performs the
\* delay and issues a status query again and again, the number of its queries
\* passes every bound the log can hold, and consecutive queries are separated
\* by exactly one delay.
C21_PollsForever ==
    /\ [][\A p \in Procs :
            InPoller(inv[p]) =>
               /\ InPoller(inv'[p])
               /\ inv'[p].task_info = JNull
               /\ inv'[p].result = NoResult]_vars
    /\ \A p \in Procs :
          /\ (inv[p].pc = "await_poll") ~> (inv[p].pc = "sleeping")
          /\ (inv[p].pc = "sleeping") ~> (inv[p].pc = "await_poll")
          /\ InPoller(inv[p]) ~>
                (Cardinality(StepsOfKind(inv[p], {"status_get"})) = MaxPolls)
    /\ [](\A p \in Procs : QueriesAndDelaysAlternate(inv[p]))

C21_Witness ==
    \E p \in Procs :
       /\ inv[p].pc = "sleeping"
       /\ inv[p].polls = MaxPolls
       /\ Cardinality(StepsOfKind(inv[p], {"delay"})) = MaxPolls - 1

\* ------------------------------------------------------------------------
\* A service that settles: every status query is answered with 200 and a
\* first record that is PENDING, at most MaxPolls - 1 times, or carries a
\* status that is neither empty nor PENDING
\* ------------------------------------------------------------------------
SettlingMessages ==
    {JNull, JStr(<<"x">>),
     JStr(duplicate_string \o <<"#", "1">>), JStr(duplicate_string \o <<"#", "x">>)}
SettlingAnswers ==
    {a \in PollAnswers :
        /\ \E st \in TerminalStatuses \cup {"PENDING"} : FirstStatusIs(a, st)
        /\ a.body.v[1].result \in SettlingMessages}

NextSettling ==
    \E p \in Procs :
       \/ Start(p)
       \/ SourceFetched(p)
       \/ OriginalWritten(p)
       \/ OriginalRead(p)
       \/ UploadAnswered(p)
       \/ PollAnsweredFrom(p, SettlingAnswers)
       \/ DelayElapsed(p)
       \/ DownloadAnswered(p)
       \/ ArchiveWritten(p)
       \/ TextExtracted(p)

\* every external call is answered, every file operation and the timer of the
\* delay complete: a step that can be taken is eventually taken
FairSettling == WF_vars(NextSettling)

SpecSettling == Init /\ [][NextSettling]_vars /\ FairSettling

\* C22: against a service that settles, an invocation that is in the poller
\* eventually gets a task record from it and eventually returns a result.
C22_SettlingTerminates ==
    \A p \in Procs :
       InPoller(inv[p]) ~>
          (Done(p) /\ IsTaskRecord(inv[p].task_info) /\ inv[p].result # NoResult)

C22_Witness ==
    \E p \in Procs :
       /\ Done(p)
       /\ IsTaskRecord(inv[p].task_info)
       /\ inv[p].polls = MaxPolls
       /\ inv[p].extraction = "text"


\* ------------------------------------------------------------------------
\* The poller: empty status, lists of several records
\* ------------------------------------------------------------------------
LastStep(i) == i.steps[Len(i.steps)]

\* C23: a 200 answer whose first record has the empty status is not
\* returned: the poller stays in its loop and issues the next status query
\* in the same step, with no delay in between; a delay is performed only in
\* a step that observed PENDING.
C23_EmptyStatusRequeries ==
    /\ [][\A p \in Procs :
            (PollStep(p) /\ FirstStatusIs(inv'[p].poll_answer, "")) =>
               /\ inv'[p].pc = "await_poll"
               /\ inv'[p].task_info = JNull
               /\ inv'[p].result = NoResult
               /\ inv'[p].steps = Append(inv[p].steps, StatusQuery(inv[p]))]_vars
    /\ [][\A p \in Procs :
            (inv'[p].steps # inv[p].steps /\ LastStep(inv'[p]).kind = "delay") =>
               /\ PollStep(p)
               /\ FirstStatusIs(inv'[p].poll_answer, "PENDING")]_vars

C23_Witness ==
    \E p \in Procs :
       /\ inv[p].pc = "await_poll"
       /\ FirstStatusIs(inv[p].poll_answer, "")
       /\ Len(inv[p].steps) >= 2
       /\ LastStep(inv[p]).kind = "status_get"
       /\ inv[p].steps[Len(inv[p].steps) - 1].kind = "status_get"

\* C24: a returned task record whose status is not FAILURE is a success,
\* whatever its result message says: the duplicate resolver is not consulted
\* (the local duplicate_id stays undefined), the document id is the record's
\* id, the workflow enters the download step, and the download it requests is
\* the archival copy of that id.
C24_NonFailureIsSuccess ==
    \A p \in Procs :
       LET i == inv[p]
           x == i.task_info
       IN  (IsTaskRecord(x) /\ x.status # JSym("FAILURE")) =>
              /\ i.duplicate_id = JUndef
              /\ i.document_id = x.id
              /\ i.pdfa_mkdir \in {"ok", "failed"}
              /\ i.pdfa_mkdir = "ok" =>
                    TargetsOfKind(i, "download_get") = {DownloadUrl(x.id, FALSE)}
              /\ Done(p) => i.result.uuid = x.id

C24_Witness ==
    \E p \in Procs :
       /\ Done(p)
       /\ IsTaskRecord(inv[p].task_info)
       /\ inv[p].task_info.status = JSym("STARTED")
       /\ inv[p].task_info.id = JNum(2)
       /\ inv[p].task_info.result = JStr(duplicate_string \o <<"#", "1">>)
       /\ inv[p].extraction = "text"
       /\ inv[p].result.uuid = JNum(2)

\* the answer is a 200 whose list starts with a task record
StartsWithRecord(ans) ==
    /\ ans.net = "resp"
    /\ ans.status = 200
    /\ ans.body.t = "arr"
    /\ Len(ans.body.v) >= 1
    /\ ans.body.v[1].t = "rec"

\* C25: what the poller does with a list of task records is decided by the
\* first record alone: it waits when that record is PENDING, it queries
\* again when its status is empty, and otherwise it returns that record, the
\* first element of the list, whatever the later elements are.
C25_FirstRecordDecides ==
    [][\A p \in Procs :
         (PollStep(p) /\ StartsWithRecord(inv'[p].poll_answer)) =>
            LET first == inv'[p].poll_answer.body.v[1]
            IN  /\ first.status = JSym("PENDING") =>
                      inv'[p].pc = "sleeping" /\ inv'[p].task_info = JNull
                /\ first.status = JSym("") =>
                      inv'[p].pc = "await_poll" /\ inv'[p].task_info = JNull
                /\ first.status \notin {JSym("PENDING"), JSym("")} =>
                      ~InPoller(inv'[p]) /\ inv'[p].task_info = first]_vars

C25_Witness ==
    \E p \in Procs :
       /\ Done(p)
       /\ StartsWithRecord(inv[p].poll_answer)
       /\ Len(inv[p].poll_answer.body.v) = 2
       /\ inv[p].poll_answer.body.v[1].status = JSym("SUCCESS")
       /\ inv[p].poll_answer.body.v[2].status = JSym("PENDING")
       /\ inv[p].task_info = inv[p].poll_answer.body.v[1]
       /\ inv[p].extraction = "text"


\* ------------------------------------------------------------------------
\* Scratch paths
\* ------------------------------------------------------------------------
\* C26: the archival copy is written to and read back from the file named
\* after the resolved document id, the id of the download request and of the
\* returned uuid; nothing else is ever written to the archival staging area;
\* the pre-upload copy is written to the file named after external_id.
C26_ScratchPaths ==
    /\ \A p \in Procs :
          LET i == inv[p] IN
          /\ TargetsOfKind(i, "download_get") \subseteq {DownloadUrl(i.document_id, FALSE)}
          /\ TargetsOfKind(i, "pdfa_write") \subseteq {<<i.document_id, ".pdf">>}
          /\ TargetsOfKind(i, "extract") \subseteq {<<i.document_id, ".pdf">>}
          /\ TargetsOfKind(i, "orig_write") \subseteq {<<i.hoarder_id, ".pdf">>}
          /\ i.pdfa_write = "ok" =>
                /\ <<i.document_id, ".pdf">> \in DOMAIN pdfa
                /\ pdfa[<<i.document_id, ".pdf">>] = i.document_buffer.v
                /\ Done(p) => i.result.uuid = i.document_id
          /\ (Done(p) /\ i.extraction = "text") =>
                i.result.content = readPdfText(pdfa[<<i.document_id, ".pdf">>]).text
          /\ i.orig_write = "ok" => <<i.hoarder_id, ".pdf">> \in DOMAIN originals
    /\ DOMAIN pdfa \subseteq {<<inv[p].document_id, ".pdf">> : p \in Procs}
    /\ DOMAIN originals \subseteq {<<inv[p].hoarder_id, ".pdf">> : p \in Procs}

C26_Witness ==
    \E p \in Procs :
       /\ Done(p)
       /\ inv[p].extraction = "text"
       /\ IsFailure(inv[p].task_info)
       /\ inv[p].task_info.id = JNum(2)
       /\ inv[p].document_id = JNum(1)
       /\ inv[p].result.uuid = JNum(1)
       /\ DOMAIN pdfa = {<<JNum(1), ".pdf">>}


\* ------------------------------------------------------------------------
\* The same request made twice: two invocations with the same source_url,
\* external_id and token, in any interleaving (one after the other included)
\* ------------------------------------------------------------------------
InitRepeat ==
    /\ inv = [p \in Procs |-> Invocation("start", "http://src/doc.pdf", "h1", "tokA")]
    /\ dirs \in SUBSET {"originals", "pdf-a"}
    /\ originals = <<>>
    /\ pdfa = <<>>

SpecRepeat == InitRepeat /\ [][NextConc]_vars

\* processAndIngestPDF was entered: its GET of the source is the first step,
\* or its mkdirSync threw before the GET
EnteredIngest(p) ==
    \/ inv[p].steps # <<>> /\ inv[p].steps[1] = Step("source_get", NoToken, inv[p].source_url)
    \/ Raised(p) /\ inv[p].steps = <<>>

\* C27: with the default configuration no invocation with a non-empty
\* source_url ends at the existence check: each one enters the fetch and
\* upload of the source, whether or not files of an earlier identical request
\* exist, and sends the upload POST once the fetched bytes are read back.
C27_NoShortCircuit ==
    \A p \in Procs :
       (Invoked(p) /\ inv[p].source_url # "") =>
          /\ EnteredIngest(p)
          /\ inv[p].orig_read = "ok" => StepsOfKind(inv[p], {"upload_post"}) # {}

C27_Witness ==
    \E p, q \in Procs :
       /\ p # q
       /\ Done(p)
       /\ inv[p].extraction = "text"
       /\ DOMAIN originals # {}
       /\ DOMAIN pdfa # {}
       /\ inv[q].pc = "await_poll"
       /\ inv[q].polls = 1


\* ------------------------------------------------------------------------
\* Retries and early returns
\* ------------------------------------------------------------------------
CountOfKind(i, kind) == Cardinality(StepsOfKind(i, {kind}))

\* C28: one invocation issues at most one GET of the source, one upload
\* POST, one download GET and one text extraction (and writes each scratch
\* file at most once), also after a step has failed; only status queries
\* are issued more than once.
C28_NoRetry ==
    \A p \in Procs :
       /\ \A kind \in {"source_get", "orig_write", "upload_post",
                       "download_get", "pdfa_write", "extract"} :
             CountOfKind(inv[p], kind) <= 1
       /\ CountOfKind(inv[p], "status_get") = inv[p].polls

C28_Witness ==
    \E p \in Procs :
       /\ Done(p)
       /\ inv[p].download_answer = Raise
       /\ CountOfKind(inv[p], "status_get") >= 2
       /\ CountOfKind(inv[p], "download_get") = 1
       /\ CountOfKind(inv[p], "upload_post") = 1
       /\ CountOfKind(inv[p], "source_get") = 1
       /\ CountOfKind(inv[p], "extract") = 0


\* the invocation returned from the part of the workflow that precedes the
\* download step: without a task record (empty source_url, no task uuid, the
\* poller gave up), or on a FAILURE record that names no document to adopt
ReturnedBeforeDownload(p) ==
    LET x == inv[p].task_info
    IN  /\ Done(p)
        /\ \/ x = JNull
           \/ /\ IsFailure(x)
              /\ \/ ~HasDuplicatePhrase(x)
                 \/ ExpectedDuplicateId(x.result.v) \in {JNull, JNum(0)}

\* C29: an invocation that returns before the download step never entered
\* it: it issued no download GET, wrote no archival copy and extracted no
\* text, and none of its steps created the staging directory or changed a
\* file in it.
C29_EarlyReturnFrame ==
    /\ [](\A p \in Procs :
            ReturnedBeforeDownload(p) =>
               /\ inv[p].pdfa_mkdir = "none"
               /\ StepsOfKind(inv[p], {"download_get", "pdfa_write", "extract"}) = {}
               /\ DOMAIN pdfa = {}
               /\ inv[p].result.new_entry = FALSE)
    /\ [][\A p \in Procs :
            (inv'[p] # inv[p] /\ inv'[p].pdfa_mkdir = "none") =>
               /\ pdfa' = pdfa
               /\ ("pdf-a" \in dirs') <=> ("pdf-a" \in dirs)]_vars

C29_Witness ==
    \E p \in Procs :
       /\ ReturnedBeforeDownload(p)
       /\ IsFailure(inv[p].task_info)
       /\ ~HasDuplicatePhrase(inv[p].task_info)
       /\ inv[p].polls >= 2
       /\ "pdf-a" \notin dirs

\* C30: a FAILURE record with the duplicate phrase whose identifier is 0 ends
\* the workflow like one without an identifier: the result is
\* {new_entry: false, uuid: the record's id, content: ""} and no download
\* is requested.
C30_DuplicateZero ==
    \A p \in Procs :
       LET x == inv[p].task_info
       IN  (/\ IsFailure(x)
            /\ HasDuplicatePhrase(x)
            /\ ExpectedDuplicateId(x.result.v) = JNum(0)) =>
              /\ Done(p)
              /\ inv[p].duplicate_id = JNum(0)
              /\ inv[p].result = PaperlessArchiveResult(FALSE, x.id, "")
              /\ inv[p].pdfa_mkdir = "none"
              /\ DownloadRequests(inv[p]) = {}

C30_Witness ==
    \E p \in Procs :
       /\ Done(p)
       /\ IsFailure(inv[p].task_info)
       /\ inv[p].task_info.id = JNum(2)
       /\ inv[p].task_info.result = JStr(duplicate_string \o <<"#", "0">>)
       /\ inv[p].result.uuid = JNum(2)

====
